---- MODULE Spec2Model ----
(***************************************************************************)
(* Health records canister (src/src/index.ts): five StableBTreeMap tables  *)
(* (patients, health records, doctors, prescriptions, lab tests) and the   *)
(* $update / $query handlers over them.                                    *)
(*                                                                         *)
(* Representation                                                          *)
(*   - a table is a function from the keys present to the stored record;   *)
(*   - an azle Opt is the object {Some: v} or {None: null}: Some(v), None; *)
(*   - a Result is Ok(v) or Err(kind, msg), of which the kind is kept;     *)
(*   - a text is a string, except medicalHistory, which is modelled by its *)
(*     length (the handlers read only its emptiness and its .length);      *)
(*   - uuidv4() yields an identifier it has not yielded before; they are   *)
(*     named u1, u2, ... in the order they are drawn;                      *)
(*   - ic.time() yields a value not below the last one observed (now).     *)
(* A handler is an operator giving its result and the five tables after    *)
(* the call, and an action that commits them.  The enumerating queries     *)
(* (getPatients, getDoctors, ...) read one table and are left out.  The    *)
(* key / value byte limits of the tables (44, 1024) are enforced by the    *)
(* library and are not modelled.                                           *)
(***************************************************************************)
EXTENDS Integers, Sequences, FiniteSets, TLC

VARIABLES
    patientsStorage,        \* index.ts:99
    healthRecordsStorage,   \* index.ts:100
    doctorsStorage,         \* index.ts:101
    prescriptionsStorage,   \* index.ts:102
    labTestsStorage,        \* index.ts:103
    issued,                 \* identifiers uuidv4() has handed out, by table
    now,                    \* last value ic.time() returned
    call,                   \* name of the last handler called
    result                  \* what it returned

vars == <<patientsStorage, healthRecordsStorage, doctorsStorage,
          prescriptionsStorage, labTestsStorage, issued, now, call, result>>

\* the five tables as one value
Tables == [patients |-> patientsStorage, healthRecords |-> healthRecordsStorage,
           doctors |-> doctorsStorage, prescriptions |-> prescriptionsStorage,
           labTests |-> labTestsStorage]

----------------------------------------------------------------------------
(* Bounds *)

\* records created in one run, all tables together
MaxRecords == 2

\* largest value ic.time() returns
MaxClock == 1

\* medicalHistory.length limit of addPatient
MaxMedicalHistory == 1000

uuidNames == <<"u1", "u2", "u3", "u4", "u5", "u6">>

\* the identifiers a run can need
UUIDs == { uuidNames[i] : i \in 1..MaxRecords }

\* a createdAt / updatedAt a caller may put in a payload, later than any clock value
FutureTime == MaxClock + 1

----------------------------------------------------------------------------
(* azle values *)

None == [tag |-> "None"]

Some(v) == [tag |-> "Some", val |-> v]

Ok(v) == [tag |-> "Ok", val |-> v]

\* the variant of Error; its message text is not kept
Err(kind, msg) == [tag |-> "Err", kind |-> kind]

IsErr(r, kind) == r.tag = "Err" /\ r.kind = kind

\* JavaScript !x for a string and for a number
FalsyText(s) == s = ""

FalsyNumber(n) == n = 0

\* !opt for the object StableBTreeMap.get returns: an object is truthy in
\* both of its variants
FalsyOpt(opt) == opt.tag \notin {"Some", "None"}

\* { ...a, ...b }
Spread(a, b) == [k \in DOMAIN a \cup DOMAIN b |-> IF k \in DOMAIN b THEN b[k] ELSE a[k]]

----------------------------------------------------------------------------
(* StableBTreeMap *)

EmptyMap == << >>

get(map, key) == IF key \in DOMAIN map THEN Some(map[key]) ELSE None

insert(map, key, value) == [k \in DOMAIN map \cup {key} |-> IF k = key THEN value ELSE map[k]]

remove(map, key) == [k \in DOMAIN map \ {key} |-> map[k]]

----------------------------------------------------------------------------
(* uuidv4() and ic.time() *)

AllIssued == issued.patients \cup issued.healthRecords \cup issued.doctors
             \cup issued.prescriptions \cup issued.labTests

Created == Cardinality(issued.patients) + Cardinality(issued.healthRecords)
           + Cardinality(issued.doctors) + Cardinality(issued.prescriptions)
           + Cardinality(issued.labTests)

\* uuidv4(): the first identifier not drawn yet
NewUUIDs == IF Created < MaxRecords THEN {uuidNames[Created + 1]} ELSE {}

ClockReadings == now..MaxClock

\* the reply of a handler: its result and the tables it leaves
Reply(res, tables) == [result |-> res, tables |-> tables]

Commit(op, out) ==
    /\ call' = op
    /\ result' = out.result
    /\ patientsStorage' = out.tables.patients
    /\ healthRecordsStorage' = out.tables.healthRecords
    /\ doctorsStorage' = out.tables.doctors
    /\ prescriptionsStorage' = out.tables.prescriptions
    /\ labTestsStorage' = out.tables.labTests

\* a handler that drew uuid and read time
Drew(table, uuid, time) ==
    /\ issued' = [issued EXCEPT ![table] = @ \cup {uuid}]
    /\ now' = time

----------------------------------------------------------------------------
(* Inputs *)

\* an id argument
IdArgs == UUIDs \cup {""}

\* a payload of type Patient as a careful caller fills it
AlicePayload == [id |-> "", name |-> "Alice", age |-> 30, gender |-> "female",
                 bloodType |-> "O", medicalHistory |-> 12,
                 createdAt |-> 0, updatedAt |-> None]

BobPayload == [id |-> "", name |-> "Bob", age |-> 1, gender |-> "male",
               bloodType |-> "AB", medicalHistory |-> MaxMedicalHistory,
               createdAt |-> 0, updatedAt |-> None]

\* a caller that fills the fields the canister is to assign
MalloryPayload == [AlicePayload EXCEPT !.id = "u1", !.createdAt = FutureTime,
                                       !.updatedAt = Some(FutureTime)]

\* AlicePayload with one field falsy
FalsyPayloads ==
    { [AlicePayload EXCEPT !.name = ""], [AlicePayload EXCEPT !.age = 0],
      [AlicePayload EXCEPT !.gender = ""], [AlicePayload EXCEPT !.bloodType = ""],
      [AlicePayload EXCEPT !.medicalHistory = 0] }

\* AlicePayload with one field truthy and out of range
OutOfRangePayloads ==
    { [AlicePayload EXCEPT !.age = -1], [AlicePayload EXCEPT !.gender = "other"],
      [AlicePayload EXCEPT !.bloodType = "Z"],
      [AlicePayload EXCEPT !.medicalHistory = MaxMedicalHistory + 1] }

PatientPayloads ==
    {AlicePayload, BobPayload, MalloryPayload} \cup FalsyPayloads \cup OutOfRangePayloads

\* the payloads updatePatient is called with
UpdatePayloads ==
    {AlicePayload, MalloryPayload, [AlicePayload EXCEPT !.name = ""],
     [AlicePayload EXCEPT !.medicalHistory = 0], [AlicePayload EXCEPT !.gender = "other"]}

DoctorBase == [id |-> "", name |-> "Dr Grey", specialization |-> "surgery", createdAt |-> 0]

DoctorPayloads ==
    {DoctorBase, [DoctorBase EXCEPT !.name = ""], [DoctorBase EXCEPT !.specialization = ""],
     [DoctorBase EXCEPT !.id = "u1", !.createdAt = FutureTime]}

HealthRecordBase == [id |-> "", patientID |-> "u1", uniqueNumber |-> "HR-1", officerID |-> "u1",
                     diagnosisNotes |-> "flu", labTestIDs |-> None, prescriptionIDs |-> << >>,
                     createdAt |-> 0]

HealthRecordPayloads ==
    { [HealthRecordBase EXCEPT !.patientID = p] : p \in {"", "u1", "u2"} }
    \cup { [HealthRecordBase EXCEPT !.officerID = ""], [HealthRecordBase EXCEPT !.diagnosisNotes = ""] }
    \cup { [HealthRecordBase EXCEPT !.id = "u2", !.createdAt = FutureTime,
                                    !.labTestIDs = Some(<<"u1">>), !.prescriptionIDs = <<"u1">>] }

PrescriptionBase == [id |-> "", doctorID |-> "u1", patientID |-> "u1", medication |-> "aspirin",
                     dosage |-> "1/day", createdAt |-> 0]

PrescriptionPayloads ==
    { [PrescriptionBase EXCEPT !.doctorID = r[1], !.patientID = r[2]] :
        r \in {<<"u1", "u1">>, <<"u2", "u1">>, <<"", "u1">>, <<"u1", "">>} }
    \cup { [PrescriptionBase EXCEPT !.medication = ""], [PrescriptionBase EXCEPT !.dosage = ""] }
    \cup { [PrescriptionBase EXCEPT !.id = "u2", !.createdAt = FutureTime] }

LabTestBase == [id |-> "", patientID |-> "u1", doctorID |-> "u1", testType |-> "blood",
                results |-> "ok", createdAt |-> 0]

LabTestPayloads ==
    { [LabTestBase EXCEPT !.doctorID = r[1], !.patientID = r[2]] :
        r \in {<<"u1", "u1">>, <<"u2", "u1">>, <<"", "u1">>, <<"u1", "">>} }
    \cup { [LabTestBase EXCEPT !.testType = ""], [LabTestBase EXCEPT !.results = ""] }
    \cup { [LabTestBase EXCEPT !.id = "u2", !.createdAt = FutureTime] }

----------------------------------------------------------------------------
(* Patients *)

\* PatientPayloadFalsy without its medicalHistory test
PatientPayloadFalsyButHistory(payload) ==
    \/ FalsyText(payload.name)
    \/ FalsyNumber(payload.age)
    \/ FalsyText(payload.gender)
    \/ FalsyText(payload.bloodType)

\* index.ts:110 and index.ts:193
PatientPayloadFalsy(payload) ==
    \/ FalsyText(payload.name)
    \/ FalsyNumber(payload.age)
    \/ FalsyText(payload.gender)
    \/ FalsyText(payload.bloodType)
    \/ FalsyNumber(payload.medicalHistory)

\* addPatientRecord with the payload spread last, over the assigned fields
addPatientRecordPayloadLast(payload, uuid, time) ==
    Spread([id |-> uuid, createdAt |-> time, updatedAt |-> None], payload)

\* index.ts:135-140
addPatientRecord(payload, uuid, time) ==
    Spread(payload, [id |-> uuid, createdAt |-> time, updatedAt |-> None])

\* index.ts:107-150
addPatientOutcome(payload, uuid, time) ==
    IF PatientPayloadFalsy(payload)
    THEN Reply(Err("InvalidPayload", "Invalid patient payload"), Tables)
    ELSE IF payload.age <= 0
    THEN Reply(Err("InvalidPayload", "Invalid age"), Tables)
    ELSE IF payload.gender # "male" /\ payload.gender # "female"
    THEN Reply(Err("InvalidPayload", "Invalid gender"), Tables)
    ELSE IF /\ payload.bloodType # "A" /\ payload.bloodType # "B"
            /\ payload.bloodType # "AB" /\ payload.bloodType # "O"
    THEN Reply(Err("InvalidPayload", "Invalid blood type"), Tables)
    ELSE IF payload.medicalHistory > MaxMedicalHistory
    THEN Reply(Err("InvalidPayload", "Invalid medical history"), Tables)
    ELSE LET patient == addPatientRecord(payload, uuid, time) IN
         Reply(Ok(patient), [Tables EXCEPT !.patients = insert(@, patient.id, patient)])

addPatient ==
    \E payload \in PatientPayloads :
        IF addPatientOutcome(payload, "", now).result.tag = "Err"
        THEN Commit("addPatient", addPatientOutcome(payload, "", now)) /\ UNCHANGED <<issued, now>>
        ELSE \E uuid \in NewUUIDs, time \in ClockReadings :
                Commit("addPatient", addPatientOutcome(payload, uuid, time)) /\ Drew("patients", uuid, time)

\* index.ts:165-181, over a given state of the table
getPatientIn(patients, id) ==
    IF FalsyText(id)
    THEN Err("NotFound", "Invalid patient ID")
    ELSE LET existingPatientOpt == get(patients, id) IN
         IF existingPatientOpt.tag = "Some"
         THEN Ok(existingPatientOpt.val)
         ELSE Err("NotFound", "The patient with ID not found")

getPatient ==
    \E id \in IdArgs :
        Commit("getPatient", Reply(getPatientIn(patientsStorage, id), Tables)) /\ UNCHANGED <<issued, now>>

\* index.ts:201-205
updatePatientRecord(existingPatient, payload, time) ==
    Spread(Spread(existingPatient, payload), [updatedAt |-> Some(time)])

\* updatePatientOutcome with the lookup moved before the payload test
updatePatientLookupFirst(id, payload, time) ==
    IF FalsyText(id)
    THEN Reply(Err("NotFound", "Invalid patient ID"), Tables)
    ELSE LET existingPatientOpt == get(patientsStorage, id) IN
         IF existingPatientOpt.tag = "None"
         THEN Reply(Err("NotFound", "Couldn't update a patient. Patient not found"), Tables)
         ELSE IF PatientPayloadFalsy(payload)
         THEN Reply(Err("InvalidPayload", "Invalid patient payload"), Tables)
         ELSE LET updatedPatient == updatePatientRecord(existingPatientOpt.val, payload, time) IN
              Reply(Ok(updatedPatient), [Tables EXCEPT !.patients = insert(@, id, updatedPatient)])

\* index.ts:185-215
updatePatientOutcome(id, payload, time) ==
    IF FalsyText(id)
    THEN Reply(Err("NotFound", "Invalid patient ID"), Tables)
    ELSE IF PatientPayloadFalsy(payload)
    THEN Reply(Err("InvalidPayload", "Invalid patient payload"), Tables)
    ELSE LET existingPatientOpt == get(patientsStorage, id) IN
         IF existingPatientOpt.tag = "Some"
         THEN LET updatedPatient == updatePatientRecord(existingPatientOpt.val, payload, time) IN
              Reply(Ok(updatedPatient), [Tables EXCEPT !.patients = insert(@, id, updatedPatient)])
         ELSE Reply(Err("NotFound", "Couldn't update a patient. Patient not found"), Tables)

updatePatient ==
    \E id \in IdArgs, payload \in UpdatePayloads :
        IF updatePatientOutcome(id, payload, now).result.tag = "Err"
        THEN Commit("updatePatient", updatePatientOutcome(id, payload, now)) /\ UNCHANGED <<issued, now>>
        ELSE \E time \in ClockReadings :
                Commit("updatePatient", updatePatientOutcome(id, payload, time)) /\ now' = time /\ UNCHANGED issued

\* deletePatientOutcome reading the record with get instead of remove
deletePatientKeepsRecord(id) ==
    IF FalsyText(id)
    THEN Reply(Err("NotFound", "Invalid patient ID"), Tables)
    ELSE LET deletedPatientOpt == get(patientsStorage, id) IN
         IF deletedPatientOpt.tag = "Some"
         THEN Reply(Ok(deletedPatientOpt.val), Tables)
         ELSE Reply(Err("NotFound", "Couldn't delete a patient. Patient not found"), Tables)

\* deletePatientOutcome removing also the health records, prescriptions and lab
\* tests of the patient
deletePatientCascade(id) ==
    IF FalsyText(id)
    THEN Reply(Err("NotFound", "Invalid patient ID"), Tables)
    ELSE LET deletedPatientOpt == get(patientsStorage, id)
             others(table) == [k \in {j \in DOMAIN table : table[j].patientID # id} |-> table[k]]
         IN
         IF deletedPatientOpt.tag = "Some"
         THEN Reply(Ok(deletedPatientOpt.val),
                    [Tables EXCEPT !.patients = remove(@, id),
                                   !.healthRecords = others(@),
                                   !.prescriptions = others(@),
                                   !.labTests = others(@)])
         ELSE Reply(Err("NotFound", "Couldn't delete a patient. Patient not found"), Tables)

\* index.ts:219-235
deletePatientOutcome(id) ==
    IF FalsyText(id)
    THEN Reply(Err("NotFound", "Invalid patient ID"), Tables)
    ELSE LET deletedPatientOpt == get(patientsStorage, id) IN
         IF deletedPatientOpt.tag = "Some"
         THEN Reply(Ok(deletedPatientOpt.val), [Tables EXCEPT !.patients = remove(@, id)])
         ELSE Reply(Err("NotFound", "Couldn't delete a patient. Patient not found"),
                    [Tables EXCEPT !.patients = remove(@, id)])

deletePatient ==
    \E id \in IdArgs :
        Commit("deletePatient", deletePatientOutcome(id)) /\ UNCHANGED <<issued, now>>

----------------------------------------------------------------------------
(* Health records *)

\* index.ts:253-259
addHealthRecordRecord(payload, uuid, time) ==
    Spread(payload, [id |-> uuid, createdAt |-> time, labTestIDs |-> None, prescriptionIDs |-> << >>])

\* index.ts:239-269
addHealthRecordOutcome(payload, uuid, time) ==
    IF FalsyText(payload.patientID) \/ FalsyText(payload.officerID) \/ FalsyText(payload.diagnosisNotes)
    THEN Reply(Err("InvalidPayload", "Invalid health record payload"), Tables)
    ELSE LET existingPatientOpt == get(patientsStorage, payload.patientID) IN
         IF FalsyOpt(existingPatientOpt)
         THEN Reply(Err("NotFound", "Patient with ID not found"), Tables)
         ELSE LET healthRecord == addHealthRecordRecord(payload, uuid, time) IN
              Reply(Ok(healthRecord),
                    [Tables EXCEPT !.healthRecords = insert(@, healthRecord.id, healthRecord)])

addHealthRecord ==
    \E payload \in HealthRecordPayloads :
        IF addHealthRecordOutcome(payload, "", now).result.tag = "Err"
        THEN Commit("addHealthRecord", addHealthRecordOutcome(payload, "", now)) /\ UNCHANGED <<issued, now>>
        ELSE \E uuid \in NewUUIDs, time \in ClockReadings :
                /\ Commit("addHealthRecord", addHealthRecordOutcome(payload, uuid, time))
                /\ Drew("healthRecords", uuid, time)

----------------------------------------------------------------------------
(* Doctors *)

\* index.ts:284-306
addDoctorOutcome(payload, uuid, time) ==
    IF FalsyText(payload.name) \/ FalsyText(payload.specialization)
    THEN Reply(Err("InvalidPayload", "Invalid doctor payload"), Tables)
    ELSE LET doctor == Spread(payload, [id |-> uuid, createdAt |-> time]) IN
         Reply(Ok(doctor), [Tables EXCEPT !.doctors = insert(@, doctor.id, doctor)])

addDoctor ==
    \E payload \in DoctorPayloads :
        IF addDoctorOutcome(payload, "", now).result.tag = "Err"
        THEN Commit("addDoctor", addDoctorOutcome(payload, "", now)) /\ UNCHANGED <<issued, now>>
        ELSE \E uuid \in NewUUIDs, time \in ClockReadings :
                Commit("addDoctor", addDoctorOutcome(payload, uuid, time)) /\ Drew("doctors", uuid, time)

----------------------------------------------------------------------------
(* Prescriptions *)

\* linkPrescription putting the new id at the head of the sequence
linkPrescriptionAtHead(healthRecords, patientID, prescriptionID) ==
    LET healthRecordOpt == get(healthRecords, patientID) IN
    IF healthRecordOpt.tag = "Some"
    THEN insert(healthRecords, healthRecordOpt.val.id,
                [healthRecordOpt.val EXCEPT !.prescriptionIDs = <<prescriptionID>> \o @])
    ELSE healthRecords

\* index.ts:345-371: the health records table after the linkage step
linkPrescription(healthRecords, patientID, prescriptionID) ==
    LET healthRecordOpt == get(healthRecords, patientID) IN
    IF ~FalsyOpt(healthRecordOpt) /\ healthRecordOpt.tag = "Some"
    THEN LET prescriptionIDs == healthRecordOpt.val.prescriptionIDs
             updatedHealthRecord ==
                 Spread(healthRecordOpt.val,
                        [prescriptionIDs |-> Some(Append(prescriptionIDs, prescriptionID))])
             definedPropertiesHealthRecord ==
                 [id |-> updatedHealthRecord.id,
                  patientID |-> updatedHealthRecord.patientID,
                  uniqueNumber |-> updatedHealthRecord.uniqueNumber,
                  officerID |-> updatedHealthRecord.officerID,
                  diagnosisNotes |-> updatedHealthRecord.diagnosisNotes,
                  labTestIDs |-> updatedHealthRecord.labTestIDs,
                  prescriptionIDs |-> updatedHealthRecord.prescriptionIDs.val,
                  createdAt |-> updatedHealthRecord.createdAt]
         IN insert(healthRecords, definedPropertiesHealthRecord.id, definedPropertiesHealthRecord)
    ELSE healthRecords

\* addPrescriptionOutcome with the insert moved before the payload test
addPrescriptionInsertFirst(payload, uuid, time) ==
    LET prescription == Spread(payload, [id |-> uuid, createdAt |-> time])
        written == [Tables EXCEPT !.prescriptions = insert(@, prescription.id, prescription)]
    IN
    IF \/ FalsyText(payload.doctorID) \/ FalsyText(payload.patientID)
       \/ FalsyText(payload.medication) \/ FalsyText(payload.dosage)
    THEN Reply(Err("InvalidPayload", "Invalid prescription payload"), written)
    ELSE Reply(Ok(prescription),
               [written EXCEPT
                  !.healthRecords = linkPrescription(@, payload.patientID, prescription.id)])

\* index.ts:321-379
addPrescriptionOutcome(payload, uuid, time) ==
    IF \/ FalsyText(payload.doctorID) \/ FalsyText(payload.patientID)
       \/ FalsyText(payload.medication) \/ FalsyText(payload.dosage)
    THEN Reply(Err("InvalidPayload", "Invalid prescription payload"), Tables)
    ELSE LET existingPatientOpt == get(patientsStorage, payload.patientID)
             existingDoctorOpt == get(doctorsStorage, payload.doctorID)
         IN
         IF FalsyOpt(existingPatientOpt) \/ FalsyOpt(existingDoctorOpt)
         THEN Reply(Err("NotFound", "Patient or doctor not found"), Tables)
         ELSE LET prescription == Spread(payload, [id |-> uuid, createdAt |-> time]) IN
              Reply(Ok(prescription),
                    [Tables EXCEPT
                       !.prescriptions = insert(@, prescription.id, prescription),
                       !.healthRecords = linkPrescription(@, payload.patientID, prescription.id)])

addPrescription ==
    \E payload \in PrescriptionPayloads :
        IF addPrescriptionOutcome(payload, "", now).result.tag = "Err"
        THEN Commit("addPrescription", addPrescriptionOutcome(payload, "", now)) /\ UNCHANGED <<issued, now>>
        ELSE \E uuid \in NewUUIDs, time \in ClockReadings :
                /\ Commit("addPrescription", addPrescriptionOutcome(payload, uuid, time))
                /\ Drew("prescriptions", uuid, time)

----------------------------------------------------------------------------
(* Lab tests *)

\* index.ts:418-437
linkLabTest(healthRecords, patientID, labTestID) ==
    LET healthRecordOpt == get(healthRecords, patientID) IN
    IF ~FalsyOpt(healthRecordOpt) /\ healthRecordOpt.tag = "Some"
       /\ ~FalsyOpt(healthRecordOpt.val.labTestIDs)
    THEN LET labTestIDs == IF healthRecordOpt.val.labTestIDs.tag = "Some"
                           THEN healthRecordOpt.val.labTestIDs.val
                           ELSE << >>
             updatedHealthRecord ==
                 Spread(healthRecordOpt.val, [labTestIDs |-> Some(Append(labTestIDs, labTestID))])
         IN insert(healthRecords, updatedHealthRecord.id, updatedHealthRecord)
    ELSE healthRecords

\* index.ts:394-445
addLabTestOutcome(payload, uuid, time) ==
    IF \/ FalsyText(payload.doctorID) \/ FalsyText(payload.patientID)
       \/ FalsyText(payload.testType) \/ FalsyText(payload.results)
    THEN Reply(Err("InvalidPayload", "Invalid lab test payload"), Tables)
    ELSE LET existingPatientOpt == get(patientsStorage, payload.patientID)
             existingDoctorOpt == get(doctorsStorage, payload.doctorID)
         IN
         IF FalsyOpt(existingPatientOpt) \/ FalsyOpt(existingDoctorOpt)
         THEN Reply(Err("NotFound", "Patient or doctor not found"), Tables)
         ELSE LET labTest == Spread(payload, [id |-> uuid, createdAt |-> time]) IN
              Reply(Ok(labTest),
                    [Tables EXCEPT
                       !.labTests = insert(@, labTest.id, labTest),
                       !.healthRecords = linkLabTest(@, payload.patientID, labTest.id)])

addLabTest ==
    \E payload \in LabTestPayloads :
        IF addLabTestOutcome(payload, "", now).result.tag = "Err"
        THEN Commit("addLabTest", addLabTestOutcome(payload, "", now)) /\ UNCHANGED <<issued, now>>
        ELSE \E uuid \in NewUUIDs, time \in ClockReadings :
                Commit("addLabTest", addLabTestOutcome(payload, uuid, time)) /\ Drew("labTests", uuid, time)

----------------------------------------------------------------------------

Init ==
    /\ patientsStorage = EmptyMap
    /\ healthRecordsStorage = EmptyMap
    /\ doctorsStorage = EmptyMap
    /\ prescriptionsStorage = EmptyMap
    /\ labTestsStorage = EmptyMap
    /\ issued = [patients |-> {}, healthRecords |-> {}, doctors |-> {},
                 prescriptions |-> {}, labTests |-> {}]
    /\ now = 0
    /\ call = "init"
    /\ result = None

Next ==
    \/ addPatient
    \/ getPatient
    \/ updatePatient
    \/ deletePatient
    \/ addHealthRecord
    \/ addDoctor
    \/ addPrescription
    \/ addLabTest

Spec == Init /\ [][Next]_vars

----------------------------------------------------------------------------
(* Properties *)

\* identifiers uuidv4() can still yield
FreshUUIDs == UUIDs \ AllIssued

\* the identifier uuidv4() yields at its next call
NextUUID == uuidNames[Created + 1]

\* s is an initial part of t
IsPrefix(s, t) == Len(s) <= Len(t) /\ SubSeq(t, 1, Len(s)) = s

\* the labTestIDs of a health record, absent counted as empty
LabTestIDsOf(healthRecord) ==
    IF healthRecord.labTestIDs.tag = "Some" THEN healthRecord.labTestIDs.val ELSE << >>

MutatingHandlers == {"addPatient", "updatePatient", "deletePatient", "addDoctor",
                     "addHealthRecord", "addPrescription", "addLabTest"}

\* the Validator's rule for a Patient payload (spec 4.2)
ValidPatientPayload(payload) ==
    /\ payload.name # ""
    /\ payload.age > 0
    /\ payload.gender \in {"male", "female"}
    /\ payload.bloodType \in {"A", "B", "AB", "O"}
    /\ payload.medicalHistory > 0
    /\ payload.medicalHistory <= MaxMedicalHistory

HasEmptyField(payload) ==
    \/ payload.name = ""
    \/ payload.age = 0
    \/ payload.gender = ""
    \/ payload.bloodType = ""
    \/ payload.medicalHistory = 0

\* C1: addPrescription (addLabTest) with a well-formed payload whose doctorID is
\* not a key of the doctors table or whose patientID is not a key of the patients
\* table returns NotFound and leaves the prescriptions (lab tests) table as it was.
C1_MissingReferenceIsNotFound ==
    /\ \A payload \in PrescriptionPayloads, uuid \in UUIDs, time \in ClockReadings :
          ( /\ payload.doctorID # "" /\ payload.patientID # ""
            /\ payload.medication # "" /\ payload.dosage # ""
            /\ \/ payload.doctorID \notin DOMAIN doctorsStorage
               \/ payload.patientID \notin DOMAIN patientsStorage )
          => LET out == addPrescriptionOutcome(payload, uuid, time) IN
               /\ IsErr(out.result, "NotFound")
               /\ out.tables.prescriptions = prescriptionsStorage
    /\ \A payload \in LabTestPayloads, uuid \in UUIDs, time \in ClockReadings :
          ( /\ payload.doctorID # "" /\ payload.patientID # ""
            /\ payload.testType # "" /\ payload.results # ""
            /\ \/ payload.doctorID \notin DOMAIN doctorsStorage
               \/ payload.patientID \notin DOMAIN patientsStorage )
          => LET out == addLabTestOutcome(payload, uuid, time) IN
               /\ IsErr(out.result, "NotFound")
               /\ out.tables.labTests = labTestsStorage

\* C2: addHealthRecord with non-empty patientID, officerID and diagnosisNotes
\* whose patientID is not a key of the patients table returns NotFound and
\* inserts nothing into the health records table.
C2_MissingPatientIsNotFound ==
    \A payload \in HealthRecordPayloads, uuid \in UUIDs, time \in ClockReadings :
       ( /\ payload.patientID # "" /\ payload.officerID # "" /\ payload.diagnosisNotes # ""
         /\ payload.patientID \notin DOMAIN patientsStorage )
       => LET out == addHealthRecordOutcome(payload, uuid, time) IN
            /\ IsErr(out.result, "NotFound")
            /\ out.tables.healthRecords = healthRecordsStorage

C4_StoredPatientsValid ==
    \A k \in DOMAIN patientsStorage :
       /\ patientsStorage[k].age > 0
       /\ patientsStorage[k].gender \in {"male", "female"}
       /\ patientsStorage[k].bloodType \in {"A", "B", "AB", "O"}
       /\ patientsStorage[k].medicalHistory <= MaxMedicalHistory

\* C5: every entry of the patients table has an id field equal to its key, and
\* updatePatient returns a record whose id is the id it was called with.
C5_IdIsKey ==
    /\ \A k \in DOMAIN patientsStorage : patientsStorage[k].id = k
    /\ \A id \in DOMAIN patientsStorage, payload \in PatientPayloads, time \in ClockReadings :
          LET out == updatePatientOutcome(id, payload, time) IN
            out.result.tag = "Ok" => out.result.val.id = id

\* C6: a stored patient's updatedAt, when present, is not below its createdAt;
\* the record addPatient returns has updatedAt absent.
C6_UpdatedAtNotBeforeCreatedAt ==
    /\ \A k \in DOMAIN patientsStorage :
          patientsStorage[k].updatedAt.tag = "Some"
          => patientsStorage[k].updatedAt.val >= patientsStorage[k].createdAt
    /\ (call = "addPatient" /\ result.tag = "Ok") => result.val.updatedAt = None

\* C7: deletePatient(id) on a key of the patients table returns the record
\* stored under it, and getPatient(id) on the table it leaves is NotFound;
\* on any other id it returns NotFound and leaves the tables as they were.
C7_DeletePatient ==
    \A id \in IdArgs :
       LET out == deletePatientOutcome(id) IN
         IF id \in DOMAIN patientsStorage
         THEN /\ out.result = Ok(patientsStorage[id])
              /\ IsErr(getPatientIn(out.tables.patients, id), "NotFound")
         ELSE /\ IsErr(out.result, "NotFound")
              /\ out.tables = Tables

\* deletePatient has returned a patient that is no longer stored
C7_Witness ==
    /\ call = "deletePatient"
    /\ result.tag = "Ok"
    /\ \E id \in issued.patients :
          /\ id \notin DOMAIN patientsStorage
          /\ IsErr(getPatientIn(patientsStorage, id), "NotFound")

C10_NotFoundForEveryPayload ==
    \A id \in IdArgs \ DOMAIN patientsStorage, payload \in PatientPayloads, time \in ClockReadings :
       LET out == updatePatientOutcome(id, payload, time) IN
         /\ IsErr(out.result, "NotFound")
         /\ out.tables = Tables

\* C10 as amended: updatePatient tests the payload's fields for emptiness before
\* it looks the id up.  With an empty id it returns NotFound; with a non-empty
\* id and a payload that has an empty field it returns InvalidPayload, whether
\* or not the id is a key; with a non-empty id that is not a key and a payload
\* without an empty field it returns NotFound.  In all these cases the tables
\* are left as they were.
C10_PayloadTestedBeforeLookup ==
    \A id \in IdArgs, payload \in PatientPayloads, time \in ClockReadings :
       LET out == updatePatientOutcome(id, payload, time) IN
         /\ id = "" => IsErr(out.result, "NotFound") /\ out.tables = Tables
         /\ (id # "" /\ HasEmptyField(payload))
               => IsErr(out.result, "InvalidPayload") /\ out.tables = Tables
         /\ (id # "" /\ ~HasEmptyField(payload) /\ id \notin DOMAIN patientsStorage)
               => IsErr(out.result, "NotFound") /\ out.tables = Tables

\* updatePatient has returned InvalidPayload with no patient stored
C10_Witness ==
    /\ call = "updatePatient"
    /\ IsErr(result, "InvalidPayload")
    /\ patientsStorage = EmptyMap
    /\ issued.patients # {}

\* from the current state, a call of addPrescription (addLabTest) that changes
\* the health records table changes one record, by appending the id of the
\* record it returns to prescriptionIDs (labTestIDs), and no other field
C11_LinkAppendsOneId ==
    /\ \A time \in ClockReadings, payload \in PrescriptionPayloads :
          LET out == addPrescriptionOutcome(payload, NextUUID, time) IN
            out.tables.healthRecords # healthRecordsStorage
            => /\ out.result.tag = "Ok"
               /\ \E k \in DOMAIN healthRecordsStorage :
                     out.tables.healthRecords =
                        [healthRecordsStorage EXCEPT
                           ![k].prescriptionIDs = Append(@, out.result.val.id)]
    /\ \A time \in ClockReadings, payload \in LabTestPayloads :
          LET out == addLabTestOutcome(payload, NextUUID, time) IN
            out.tables.healthRecords # healthRecordsStorage
            => /\ out.result.tag = "Ok"
               /\ \E k \in DOMAIN healthRecordsStorage :
                     out.tables.healthRecords =
                        [healthRecordsStorage EXCEPT
                           ![k].labTestIDs =
                               Some(Append(LabTestIDsOf(healthRecordsStorage[k]),
                                           out.result.val.id))]

\* C11: the prescriptionIDs and labTestIDs of a health record only grow at the
\* end.  Across every step, every key of the health records table present
\* before and after keeps its prescriptionIDs and its labTestIDs (absent
\* counted as empty) as a prefix of the new ones; and when addPrescription
\* (addLabTest) changes the health records table, it changes one record, by
\* appending the id of the record it returns to prescriptionIDs (labTestIDs),
\* and no other field.
C11_AppendOnly ==
    /\ [][ \A k \in DOMAIN healthRecordsStorage \cap DOMAIN healthRecordsStorage' :
             /\ IsPrefix(healthRecordsStorage[k].prescriptionIDs,
                         healthRecordsStorage'[k].prescriptionIDs)
             /\ IsPrefix(LabTestIDsOf(healthRecordsStorage[k]),
                         LabTestIDsOf(healthRecordsStorage'[k])) ]_vars
    /\ [] C11_LinkAppendsOneId

\* addPrescription has linked the prescription it returned to a health record
C11_Witness ==
    /\ call = "addPrescription"
    /\ result.tag = "Ok"
    /\ \E k \in DOMAIN healthRecordsStorage :
          healthRecordsStorage[k].prescriptionIDs = <<result.val.id>>

\* C12: with identifiers unique across the five tables, the linkage lookup never
\* finds a record: every stored health record has prescriptionIDs empty and
\* labTestIDs absent, and addPrescription (addLabTest) with no empty field
\* returns Ok with the record it stored.
C12_LinkageNeverFinds ==
    /\ \A k \in DOMAIN healthRecordsStorage :
          /\ healthRecordsStorage[k].prescriptionIDs = << >>
          /\ healthRecordsStorage[k].labTestIDs = None
    /\ \A time \in ClockReadings, payload \in PrescriptionPayloads :
          ( /\ payload.doctorID # "" /\ payload.patientID # ""
            /\ payload.medication # "" /\ payload.dosage # "" )
          => LET out == addPrescriptionOutcome(payload, NextUUID, time) IN
               /\ out.result.tag = "Ok"
               /\ get(out.tables.prescriptions, NextUUID) = Some(out.result.val)
    /\ \A time \in ClockReadings, payload \in LabTestPayloads :
          ( /\ payload.doctorID # "" /\ payload.patientID # ""
            /\ payload.testType # "" /\ payload.results # "" )
          => LET out == addLabTestOutcome(payload, NextUUID, time) IN
               /\ out.result.tag = "Ok"
               /\ get(out.tables.labTests, NextUUID) = Some(out.result.val)

\* C13: a step of deletePatient changes no table but the patients table, and
\* there only removes keys: the doctors, health records, prescriptions and lab
\* tests tables are as before, so the records whose patientID names the deleted
\* patient stay stored.
C13_DeleteChangesOnlyPatients ==
    [][ call' = "deletePatient"
        => /\ doctorsStorage' = doctorsStorage
           /\ healthRecordsStorage' = healthRecordsStorage
           /\ prescriptionsStorage' = prescriptionsStorage
           /\ labTestsStorage' = labTestsStorage
           /\ \A k \in DOMAIN patientsStorage' :
                 k \in DOMAIN patientsStorage /\ patientsStorage'[k] = patientsStorage[k] ]_vars

\* deletePatient has removed a patient that a stored health record, prescription
\* or lab test still names
C13_Witness ==
    /\ call = "deletePatient"
    /\ result.tag = "Ok"
    /\ \E id \in issued.patients \ DOMAIN patientsStorage :
          \/ \E k \in DOMAIN healthRecordsStorage : healthRecordsStorage[k].patientID = id
          \/ \E k \in DOMAIN prescriptionsStorage : prescriptionsStorage[k].patientID = id
          \/ \E k \in DOMAIN labTestsStorage : labTestsStorage[k].patientID = id

====
